---- MODULE Spec2Model ----
(***************************************************************************)
(* Session engine of the smart-parking streaming backend: one websocket    *)
(* session (gate monitor = PlateStreamProcessor, lot monitor =             *)
(* ParkingStreamProcessor), its frame admission (fixed modulo or           *)
(* DynamicFrameSkipper), the plate dedup map with its cleanup, and the     *)
(* occupancy state-change detector.                                        *)
(*                                                                         *)
(* Time: `now` is time.time() in whole seconds.  Detection latency is in   *)
(* whole milliseconds and stays below one second; the clock reads of one   *)
(* handler run return the same second, and seconds pass between two        *)
(* handler runs (Tick).                                                    *)
(***************************************************************************)
EXTENDS Integers, Sequences, FiniteSets, TLC

\* ---------------------------------------------------------------- bounds
MaxFrames == 10          \* process_frame calls per run of Spec
MaxAdmitted == 2         \* admitted frames per run of Spec
MaxTime == 1             \* last second of the clock in Spec
MaxWindow == 1           \* dedup_window values 1..MaxWindow in Spec
MaxInitialSkip == 5      \* skip_frames values 1..MaxInitialSkip
NumPlates == 2           \* distinct plate numbers the pipeline can report
MaxPlatesPerFrame == 1   \* plates in one pipeline result
MaxTrackedPlates == 1    \* max_tracked_plates, scaled down from the 100 of
                         \* stream_processor.py:70
MaxSlots == 2            \* parking slots the detector can report
HistLen == 3             \* is_duplicate(X) calls kept in xHist
DedupTime == 3           \* last second of the clock in SpecDedup, SpecCleanup
DedupWindow == 2         \* dedup_window values 1..DedupWindow there
DedupFrames == 3         \* process_frame calls per run of SpecDedup
ScenarioTime == 11       \* last second of the clock in SpecScenario
ScenarioFrames == 3      \* process_frame calls per run of SpecScenario
LongFrames == 50         \* process_frame calls per run of SpecCadence
MaxCleanupCalls == 2     \* cleanup_old_plates calls per run of SpecCleanup
SkipperFrames == 40      \* process_frame calls per run of SpecSkipper
SteadyFrames == 70       \* process_frame calls per run of SpecSteady
NumConns == 3            \* websocket connections of SpecRelay
MaxSignals == 1          \* texts received on the signaling path
MaxEchoes == 1           \* texts received on the echo path
MaxCloses == 1           \* clients that close their end
MaxMessages == 2         \* messages a monitor session receives
MaxInputs == 3           \* messages each of two concurrent sessions receives
NumCallers == 3          \* sessions and upload requests that call detection
MaxDetects == 1          \* detection calls of one caller

\* ------------------------------------------------------ program constants
CleanupInterval == 50    \* frame_count % 50 == 0
RingCapacity == 10       \* deque(maxlen=10)
adjustment_interval == 20
MinSamples == 5          \* len(self.processing_times) < 5
DefaultDedupWindow == 10 \* GATE_DEDUP_WINDOW default

Plates == 1..NumPlates
\* the identity whose sightings are recorded
X == CHOOSE p \in Plates : \A q \in Plates : p <= q
Latencies == {20}        \* detection latency in ms
\* the times a detection takes, in ms, as the load of the host changes
Loads == <<100, 400, 20>>
SkipValues == 1..MaxInitialSkip
Windows == 1..MaxWindow

None == <<>>
Some(v) == <<v>>

VARIABLES
  kind,                  \* "gate" (PlateStreamProcessor) or "lot"
  use_dynamic_skipping,
  skip_frames,
  dedup_window,
  frame_count,
  processed_count,
  seen_plates,           \* dict in insertion order: Seq of [plate, ts]
  last_occupancy,        \* None or Some(n)
  frame_skipper,         \* DynamicFrameSkipper fields (used when dynamic)
  now,                   \* time.time()
  \* history (not read by the program)
  calls,                 \* process_frame calls since creation / reset
  admitLog,              \* [admit, skip] of each of those calls: the decision
                         \* and the skip interval it was taken with
  count,                 \* [admitted, detect, sent, failed] since creation /
                         \* reset: admitted frames, detection calls, frame
                         \* replies, detections that reported failure
  lastResult,            \* return value of the latest process_frame
  xHist,                 \* latest is_duplicate(X) calls: Seq of [t, dup]
  xCalls,                \* is_duplicate(X) calls since X was last untracked
  cleanups,              \* cleanup_old_plates runs since creation / reset
  cleanIn,               \* input of the cleanup run of the latest step, if any
  prev_occupancy,        \* last_occupancy before the latest process_frame
  okOccupied,            \* occupied count of the latest capacity_update
                         \* envelope since creation / reset: None or Some(n)
  recorded,              \* the latest times given to record_processing_time
                         \* since creation / reset, in order: one more than
                         \* the ring can hold
  \* environment
  load,                  \* index in Loads of the time a detection takes now
  \* the server: connections, their handlers and the registry
  registry,              \* manager.active_connections, in order
  endpoint,              \* per connection: "none", "signal", "echo", "monitor"
  pc,                    \* per connection, where its handler is:
                         \*   "none"   not connected yet
                         \*   "init"   registered, before the handshake
                         \*   "recv"   awaiting a message
                         \*   "relay"  inside the broadcast loop, awaiting
                         \*            the end of a send_text
                         \*   "reply"  awaiting the end of a send_json
                         \*   "detect" inside a detection call that has not
                         \*            returned
                         \*   "fault"  in `except Exception`, awaiting the
                         \*            end of the error send
                         \*   "ended"  the handler has returned
  open,                  \* per connection: the client's end is open
  iter,                  \* per connection: the broadcast loop's data and
                         \* iterator [sig, data, idx, len]
  inflight,              \* per connection: the reply given to send_json that
                         \* has not returned, None or Some(reply)
  \* history (not read by the program)
  signals,               \* texts received on the signaling path:
                         \* Seq of [from, text, reg, fault], reg the registry
                         \* then, fault how the handling ended early
  got,                   \* per connection: what the server delivered to it
  events,                \* what the monitor handler did, in order
  \* the sessions beside the one whose handler is running
  active,                \* the session whose processor the session
                         \* variables above hold: the handler the event
                         \* loop is running
  parked,                \* per session: None before its constructor ran
                         \* and while it is the active one, else Some(the
                         \* attributes of its processor and its history)
  inputs,                \* history, per session: what its client sent and
                         \* what detection and the clock gave it, in order
  \* the detection capability
  plate_pipeline,        \* main.plate_pipeline: None or Some(instance)
  parking_detector,      \* main.parking_detector
  shared_pipeline,       \* PlateStreamProcessor._shared_pipeline
  shared_detector,       \* ParkingStreamProcessor._shared_detector
  instances,             \* history, per kind: instances constructed so far
  caller,                \* per caller: [via, kind, ref, at, n]: a session
                         \* or an upload request, the capability it calls,
                         \* the instance it holds, where it is in the
                         \* detection call, its calls so far
  temp                   \* per kind: the caller whose frame the temporary
                         \* file holds, 0 when there is no file

vars == <<kind, use_dynamic_skipping, skip_frames, dedup_window, frame_count,
          processed_count, seen_plates, last_occupancy, frame_skipper, now,
          calls, admitLog, count, lastResult, xHist, xCalls, cleanups,
          cleanIn,
          prev_occupancy, okOccupied, recorded, load,
          registry, endpoint, pc, open, iter, inflight, signals, got, events,
          active, parked, inputs,
          plate_pipeline, parking_detector, shared_pipeline, shared_detector,
          instances, caller, temp>>

\* the session: everything process_frame, reset_state and get_stats touch
session == <<kind, use_dynamic_skipping, skip_frames, dedup_window, frame_count,
             processed_count, seen_plates, last_occupancy, frame_skipper>>
\* the history of the session
sessionHistory == <<calls, admitLog, count, lastResult, xHist, xCalls, cleanups,
                    cleanIn, prev_occupancy, okOccupied, recorded>>
\* the server around the session
server == <<registry, endpoint, pc, open, iter, inflight, signals, got, events>>

config == <<kind, use_dynamic_skipping, skip_frames, dedup_window>>
\* the other sessions of the process
others == <<active, parked, inputs>>
\* the detection capability and its callers
capability == <<plate_pipeline, parking_detector, shared_pipeline,
                shared_detector, instances, caller, temp>>
\* the process around the running session and the server
process == <<others, capability>>

\* ------------------------------------------------- DynamicFrameSkipper
NewSkipper(initial_skip, min_skip, max_skip, target_fps) ==
  [skip_frames |-> initial_skip, min_skip |-> min_skip, max_skip |-> max_skip,
   target_fps |-> target_fps, processing_times |-> <<>>, frame_count |-> 0,
   last_adjustment_frame |-> 0]

Max(a, b) == IF a >= b THEN a ELSE b
Min(a, b) == IF a <= b THEN a ELSE b

RECURSIVE Sum(_)
Sum(s) == IF s = <<>> THEN 0 ELSE Head(s) + Sum(Tail(s))

\* deque(maxlen=10).append
RingAppendWide(ring, v) ==
  IF Len(ring) < RingCapacity + 1 THEN Append(ring, v)
  ELSE Append(Tail(ring), v)
RingAppend(ring, v) ==
  IF Len(ring) < RingCapacity THEN Append(ring, v)
  ELSE Append(Tail(ring), v)

\* avg_time < available_time * 0.6, avg_time > available_time * 0.9 with
\* avg_time = sum/len seconds and available_time = skip_frames / target_fps:
\* latencies are in ms, both sides multiplied by 10 * len * target_fps.
adjust_skip_rate_eager(sk) ==
  LET n == Len(sk.processing_times)
      s == Sum(sk.processing_times)
  IN IF n < 1 THEN sk.skip_frames
     ELSE IF s * 10 * sk.target_fps < 6000 * sk.skip_frames * n
          THEN Max(sk.min_skip, sk.skip_frames - 1)
     ELSE IF s * 10 * sk.target_fps > 9000 * sk.skip_frames * n
          THEN Min(sk.max_skip, sk.skip_frames + 2)
     ELSE sk.skip_frames
adjust_skip_rate_step1(sk) ==
  LET n == Len(sk.processing_times)
      s == Sum(sk.processing_times)
  IN IF n < MinSamples THEN sk.skip_frames
     ELSE IF s * 10 * sk.target_fps < 6000 * sk.skip_frames * n
          THEN Max(sk.min_skip, sk.skip_frames - 1)
     ELSE IF s * 10 * sk.target_fps > 9000 * sk.skip_frames * n
          THEN Min(sk.max_skip, sk.skip_frames + 1)
     ELSE sk.skip_frames
adjust_skip_rate(sk) ==
  LET n == Len(sk.processing_times)
      s == Sum(sk.processing_times)
  IN IF n < MinSamples THEN sk.skip_frames
     ELSE IF s * 10 * sk.target_fps < 6000 * sk.skip_frames * n
          THEN Max(sk.min_skip, sk.skip_frames - 1)
     ELSE IF s * 10 * sk.target_fps > 9000 * sk.skip_frames * n
          THEN Min(sk.max_skip, sk.skip_frames + 2)
     ELSE sk.skip_frames

record_processing_time_early(sk, lat) ==
  LET sk1 == [sk EXCEPT !.processing_times = RingAppend(@, lat)]
  IN IF sk1.frame_count - sk1.last_adjustment_frame >= adjustment_interval \div 2
     THEN [sk1 EXCEPT !.skip_frames = adjust_skip_rate(sk1),
                      !.last_adjustment_frame = sk1.frame_count]
     ELSE sk1
record_processing_time(sk, lat) ==
  LET sk1 == [sk EXCEPT !.processing_times = RingAppend(@, lat)]
  IN IF sk1.frame_count - sk1.last_adjustment_frame >= adjustment_interval
     THEN [sk1 EXCEPT !.skip_frames = adjust_skip_rate(sk1),
                      !.last_adjustment_frame = sk1.frame_count]
     ELSE sk1

\* DynamicFrameSkipper.should_process_frame: the counter after the call and
\* the decision
SkipperCount(sk) == sk.frame_count + 1
skipper_should_process_frame(sk) ==
  [sk |-> [sk EXCEPT !.frame_count = SkipperCount(sk)],
   admit |-> SkipperCount(sk) % sk.skip_frames = 0]

skipper_reset_keep_ring(sk) ==
  [sk EXCEPT !.frame_count = 0, !.last_adjustment_frame = 0]
skipper_reset(sk) ==
  [sk EXCEPT !.processing_times = <<>>, !.frame_count = 0,
             !.last_adjustment_frame = 0]

\* --------------------------------------------------- session: admission
\* process_frame's first statement: the session's frame counter
AdvanceFrameCount(dyn, fc, sk) == IF dyn THEN sk.frame_count ELSE fc + 1

\* should_process_frame of both stream processors, fixed path
FixedAdmitMut(fc, skip) == (fc + 1) % skip = 0
FixedAdmit(fc, skip) == fc % skip = 0

\* ------------------------------------------------------- dedup map
RECURSIVE IndexOf(_, _)
IndexOf(sp, p) ==
  IF sp = <<>> THEN 0
  ELSE IF sp[Len(sp)].plate = p THEN Len(sp)
  ELSE IndexOf(SubSeq(sp, 1, Len(sp) - 1), p)

Tracked(sp) == {sp[i].plate : i \in 1..Len(sp)}
StampOf(sp, p) == sp[IndexOf(sp, p)].ts

\* self.seen_plates[plate_number] = current_time
Stamp(sp, p, t) ==
  IF IndexOf(sp, p) = 0 THEN Append(sp, [plate |-> p, ts |-> t])
  ELSE [sp EXCEPT ![IndexOf(sp, p)].ts = t]

WithinWindowMut(diff, w) == diff <= w
WithinWindow(diff, w) == diff < w

\* is_duplicate: the result and the map after the call
is_duplicate_restamp(sp, p, t, w) ==
  IF IndexOf(sp, p) # 0 /\ WithinWindow(t - StampOf(sp, p), w)
  THEN [dup |-> TRUE, seen |-> Stamp(sp, p, t)]
  ELSE [dup |-> FALSE, seen |-> Stamp(sp, p, t)]
is_duplicate(sp, p, t, w) ==
  IF IndexOf(sp, p) # 0 /\ WithinWindow(t - StampOf(sp, p), w)
  THEN [dup |-> TRUE, seen |-> sp]
  ELSE [dup |-> FALSE, seen |-> Stamp(sp, p, t)]

RECURSIVE SelectSeqBy(_, _, _)
\* entries of sp that are not older than 2 * w, in order
SelectSeqBy(sp, t, w) ==
  IF sp = <<>> THEN <<>>
  ELSE IF t - Head(sp).ts > w * 2 THEN SelectSeqBy(Tail(sp), t, w)
  ELSE <<Head(sp)>> \o SelectSeqBy(Tail(sp), t, w)

\* sorted(items, key=ts, reverse=True): stable, equal keys keep their order
RECURSIVE InsertDesc(_, _)
InsertDesc(sorted, e) ==
  IF sorted = <<>> THEN <<e>>
  ELSE IF Head(sorted).ts >= e.ts THEN <<Head(sorted)>> \o InsertDesc(Tail(sorted), e)
  ELSE <<e>> \o sorted

RECURSIVE SortDesc(_)
SortDesc(sp) ==
  IF sp = <<>> THEN <<>>
  ELSE InsertDesc(SortDesc(SubSeq(sp, 1, Len(sp) - 1)), sp[Len(sp)])

cleanup_keep_oldest(sp, t, w, cap) ==
  LET fresh == SelectSeqBy(sp, t, w)
  IN IF Len(fresh) > cap
     THEN SubSeq(SortDesc(fresh), Len(fresh) - cap + 1, Len(fresh))
     ELSE fresh
cleanup_old_plates(sp, t, w, cap) ==
  LET fresh == SelectSeqBy(sp, t, w)
  IN IF Len(fresh) > cap THEN SubSeq(SortDesc(fresh), 1, cap) ELSE fresh

\* the loop of process_frame over result["plates"]
RECURSIVE MarkPlates(_, _, _, _)
MarkPlates(plates, sp, t, w) ==
  IF plates = <<>> THEN [seen |-> sp, status |-> <<>>]
  ELSE LET r == is_duplicate(sp, Head(plates), t, w)
           rest == MarkPlates(Tail(plates), r.seen, t, w)
       IN [seen |-> rest.seen,
           status |-> <<[plate_number |-> Head(plates), is_new |-> ~r.dup]>>
                      \o rest.status]

CountNew(status) == Cardinality({i \in 1..Len(status) : status[i].is_new})

\* ------------------------------------------------ occupancy state change
\* detect_state_change: the event (None or Some) and the baseline after it
detect_state_change_coarse(last, current) ==
  IF last = None THEN [event |-> None, last |-> Some(current)]
  ELSE LET change == current - last[1]
       IN IF change >= 2 \/ change <= -2
          THEN [event |-> Some([previous |-> last[1], current |-> current,
                                change |-> change,
                                direction |-> IF change > 0 THEN "increased"
                                              ELSE "decreased"]),
                last |-> Some(current)]
          ELSE [event |-> None, last |-> last]
detect_state_change_keep(last, current) ==
  IF last = None THEN [event |-> None, last |-> Some(current)]
  ELSE LET change == current - last[1]
       IN IF change >= 1 \/ change <= -1
          THEN [event |-> Some([previous |-> last[1], current |-> current,
                                change |-> change,
                                direction |-> IF change > 0 THEN "increased"
                                              ELSE "decreased"]),
                last |-> last]
          ELSE [event |-> None, last |-> last]
detect_state_change(last, current) ==
  IF last = None THEN [event |-> None, last |-> Some(current)]
  ELSE LET change == current - last[1]
       IN IF change >= 1 \/ change <= -1
          THEN [event |-> Some([previous |-> last[1], current |-> current,
                                change |-> change,
                                direction |-> IF change > 0 THEN "increased"
                                              ELSE "decreased"]),
                last |-> Some(current)]
          ELSE [event |-> None, last |-> last]

\* ParkingSlotDetector.detect_slots on a frame showing `occupied` occupied
\* and `empty` empty slots; the rate is in hundredths (round(x, 2))
detect_slots(occupied, empty) ==
  LET total_slots == occupied + empty
  IN [success |-> TRUE, total_slots |-> total_slots, occupied |-> occupied,
      empty |-> empty,
      occupancy_rate |-> IF total_slots > 0
                         THEN (200 * occupied + total_slots) \div (2 * total_slots)
                         ELSE 0]

\* ------------------------------------------------------------ the session
Conns == 1..NumConns
NoIter == [sig |-> 0, data |-> "", idx |-> 0, len |-> 0]

\* the server before any connection: manager = ConnectionManager()
ServerStart ==
  /\ registry = <<>>
  /\ endpoint = [c \in Conns |-> "none"]
  /\ pc = [c \in Conns |-> "none"]
  /\ open = [c \in Conns |-> TRUE]
  /\ iter = [c \in Conns |-> NoIter]
  /\ inflight = [c \in Conns |-> None]
  /\ signals = <<>>
  /\ got = [c \in Conns |-> <<>>]
  /\ events = <<>>

\* one session is running, that of connection First; Twin connects later
First == 1
Twin == 2
Sessions == {First, Twin}

Callers == 1..NumCallers
Kinds == {"plate", "parking"}
NoCaller == [via |-> "none", kind |-> "none", ref |-> 0, at |-> "none", n |-> 0]

\* the process before any other session, upload request or detection call:
\* the module-level and class-level holders are None (main.py 31-32,
\* stream_processor.py 27)
ProcessStart ==
  /\ active = First
  /\ parked = [c \in Sessions |-> None]
  /\ inputs = [c \in Sessions |-> <<>>]
  /\ plate_pipeline = None
  /\ parking_detector = None
  /\ shared_pipeline = None
  /\ shared_detector = None
  /\ instances = [k \in Kinds |-> 0]
  /\ caller = [i \in Callers |-> NoCaller]
  /\ temp = [k \in Kinds |-> 0]

NoCleanup == [ran |-> FALSE, seen |-> <<>>, t |-> 0, w |-> 0]

InitWith(k, dyn, skip, w, sp, t, l) ==
  /\ kind = k
  /\ use_dynamic_skipping = dyn
  /\ skip_frames = skip
  /\ dedup_window = w
  /\ frame_count = 0
  /\ processed_count = 0
  /\ seen_plates = sp
  /\ last_occupancy = None
  /\ frame_skipper = IF k = "gate" THEN NewSkipper(skip, 1, 30, 10)
                     ELSE NewSkipper(skip, 2, 50, 5)
  /\ now = t
  /\ calls = 0
  /\ admitLog = <<>>
  /\ count = [admitted |-> 0, detect |-> 0, sent |-> 0, failed |-> 0]
  /\ lastResult = None
  /\ xHist = <<>>
  /\ xCalls = 0
  /\ cleanups = 0
  /\ cleanIn = NoCleanup
  /\ prev_occupancy = None
  /\ okOccupied = None
  /\ recorded = <<>>
  /\ load = l
  /\ ServerStart
  /\ ProcessStart

InitState(k, dyn, skip, w, sp, t) == InitWith(k, dyn, skip, w, sp, t, 1)

\* the state after the session's constructor
InitSession(k, dyn, skip, w) == InitState(k, dyn, skip, w, <<>>, 0)

Init ==
  \E k \in {"gate", "lot"}, dyn \in BOOLEAN, skip \in SkipValues, w \in Windows :
    InitSession(k, dyn, skip, IF k = "gate" THEN w ELSE 1)

\* the admission step shared by both process_frame methods (lines 132-143 /
\* 115-126): the frame counter, the skipper and the decision
Admission ==
  LET fc == AdvanceFrameCount(use_dynamic_skipping, frame_count, frame_skipper)
  IN IF use_dynamic_skipping
     THEN LET r == skipper_should_process_frame(frame_skipper)
          IN [fc |-> fc, sk |-> r.sk, admit |-> r.admit,
              skip |-> frame_skipper.skip_frames]
     ELSE [fc |-> fc, sk |-> frame_skipper, admit |-> FixedAdmit(fc, skip_frames),
           skip |-> skip_frames]

\* `if not result.get("success"): return {...}`: a failed detection returns
\* before the post-processing, whose effect `after` on the mode state is
\* never applied
AfterDetectionAlways(ok, before, after) == after
AfterDetection(ok, before, after) == IF ok THEN after ELSE before

\* pipeline.process / detect_slots is called once, on the admitted path only
DetectionCallsEager(admit) == 1
DetectionCalls(admit) == IF admit THEN 1 ELSE 0

\* main.py: `if result: await websocket.send_json(result)`
FrameRepliesAlways(result) == 1
FrameReplies(result) == IF result # None THEN 1 ELSE 0

Last(s, n) == IF Len(s) <= n THEN s ELSE SubSeq(s, Len(s) - n + 1, Len(s))

\* the is_duplicate(X) calls of one frame
XCallsOf(status, t) ==
  LET idx == {i \in 1..Len(status) : status[i].plate_number = X}
      F[k \in 0..Len(status)] ==
        IF k = 0 THEN <<>>
        ELSE IF k \in idx THEN Append(F[k - 1], [t |-> t, dup |-> ~status[k].is_new])
        ELSE F[k - 1]
  IN F[Len(status)]

\* `if self.use_dynamic_skipping: self.frame_skipper.record_processing_time(
\* processing_time)`, reached by every admitted frame whose detection returned
Recorded(admit, lat) ==
  IF use_dynamic_skipping /\ admit
  THEN Last(Append(recorded, lat), RingCapacity + 1)
  ELSE recorded

History(adm, res, ok) ==
  /\ calls' = calls + 1
  /\ admitLog' = Append(admitLog, [admit |-> adm.admit, skip |-> adm.skip])
  /\ lastResult' = res
  /\ count' = [count EXCEPT !.admitted = @ + (IF adm.admit THEN 1 ELSE 0),
                            !.detect = @ + DetectionCalls(adm.admit),
                            !.sent = @ + FrameReplies(res),
                            !.failed = @ + (IF adm.admit /\ ~ok THEN 1 ELSE 0)]

\* gate monitor: one frame message through process_frame and the reply.
\* plates, ok: what the pipeline returns; lat: its latency in ms.
gate_process_frame(plates, ok, lat) ==
  /\ kind = "gate"
  /\ recorded' = Recorded(Admission.admit, lat)
  /\ LET adm == Admission
         t == now
         sk1 == IF use_dynamic_skipping THEN record_processing_time(adm.sk, lat)
                ELSE adm.sk
         marked == MarkPlates(plates, seen_plates, t, dedup_window)
         clean == adm.fc % CleanupInterval = 0
         seen1 == IF clean
                  THEN cleanup_old_plates(marked.seen, t, dedup_window, MaxTrackedPlates)
                  ELSE marked.seen
         xs == XCallsOf(marked.status, t)
     IN /\ frame_count' = adm.fc
        /\ prev_occupancy' = last_occupancy
        /\ IF ~adm.admit
           THEN /\ frame_skipper' = adm.sk
                /\ History(adm, None, ok)
                /\ cleanIn' = NoCleanup
                /\ UNCHANGED <<processed_count, seen_plates, xHist, xCalls, cleanups>>
           ELSE IF ~ok
           THEN /\ frame_skipper' = sk1
                /\ History(adm, Some([success |-> FALSE, error |-> "error",
                                      frame_number |-> adm.fc, timestamp |-> t]),
                           ok)
                /\ cleanIn' = NoCleanup
                /\ seen_plates' = AfterDetection(ok, seen_plates, marked.seen)
                /\ UNCHANGED <<processed_count, xHist, xCalls, cleanups>>
           ELSE /\ frame_skipper' = sk1
                /\ seen_plates' = seen1
                /\ processed_count' = processed_count + 1
                /\ cleanups' = cleanups + (IF clean THEN 1 ELSE 0)
                /\ cleanIn' = IF clean
                              THEN [ran |-> TRUE, seen |-> marked.seen, t |-> t,
                                    w |-> dedup_window]
                              ELSE NoCleanup
                /\ IF X \notin Tracked(seen1)
                   THEN xHist' = <<>> /\ xCalls' = 0
                   ELSE /\ xHist' = Last(xHist \o xs, HistLen)
                        /\ xCalls' = Min(xCalls + Len(xs), HistLen + 1)
                /\ History(adm,
                     Some([success |-> TRUE, type |-> "plate_detection",
                           timestamp |-> t, frame_number |-> adm.fc,
                           processed_frame_number |-> processed_count + 1,
                           plates |-> marked.status,
                           plates_detected |-> Len(marked.status),
                           new_plates |-> CountNew(marked.status),
                           processing_time_ms |-> lat,
                           current_skip_rate |-> IF use_dynamic_skipping
                                                 THEN Some(sk1.skip_frames)
                                                 ELSE None]),
                     ok)
  /\ UNCHANGED <<config, last_occupancy, now, okOccupied, load>>

GateFrame(plates, ok, lat) ==
  gate_process_frame(plates, ok, lat) /\ UNCHANGED <<server, process>>

\* lot monitor: one frame message through process_frame and the reply
lot_process_frame(occupied, empty, ok, lat) ==
  /\ kind = "lot"
  /\ recorded' = Recorded(Admission.admit, lat)
  /\ LET adm == Admission
         t == now
         sk1 == IF use_dynamic_skipping THEN record_processing_time(adm.sk, lat)
                ELSE adm.sk
         result == detect_slots(occupied, empty)
         sc == detect_state_change(last_occupancy, result.occupied)
     IN /\ frame_count' = adm.fc
        /\ prev_occupancy' = last_occupancy
        /\ IF ~adm.admit
           THEN /\ frame_skipper' = adm.sk
                /\ History(adm, None, ok)
                /\ UNCHANGED <<processed_count, last_occupancy, okOccupied>>
           ELSE IF ~ok
           THEN /\ frame_skipper' = sk1
                /\ History(adm, Some([success |-> FALSE, error |-> "error",
                                      frame_number |-> adm.fc, timestamp |-> t]),
                           ok)
                /\ last_occupancy' = AfterDetection(ok, last_occupancy, sc.last)
                /\ UNCHANGED <<processed_count, okOccupied>>
           ELSE /\ frame_skipper' = sk1
                /\ last_occupancy' = sc.last
                /\ okOccupied' = Some(result.occupied)
                /\ processed_count' = processed_count + 1
                /\ History(adm,
                     Some([success |-> TRUE, type |-> "capacity_update",
                           timestamp |-> t, frame_number |-> adm.fc,
                           processed_frame_number |-> processed_count + 1,
                           total_slots |-> result.total_slots,
                           occupied |-> result.occupied,
                           empty |-> result.empty,
                           occupancy_rate |-> result.occupancy_rate,
                           processing_time_ms |-> lat,
                           state_change |-> sc.event,
                           current_skip_rate |-> IF use_dynamic_skipping
                                                 THEN Some(sk1.skip_frames)
                                                 ELSE None]),
                     ok)
  /\ UNCHANGED <<config, seen_plates, now, xHist, xCalls, cleanups, cleanIn,
                 load>>

LotFrame(occupied, empty, ok, lat) ==
  lot_process_frame(occupied, empty, ok, lat) /\ UNCHANGED <<server, process>>

\* control message {"type": "reset"}: reset_state of either processor and the
\* reset_ack reply
reset_state ==
  /\ frame_count' = 0
  /\ processed_count' = 0
  /\ seen_plates' = <<>>
  /\ last_occupancy' = None
  /\ frame_skipper' = IF use_dynamic_skipping THEN skipper_reset(frame_skipper)
                      ELSE frame_skipper
  /\ calls' = 0
  /\ admitLog' = <<>>
  /\ count' = [admitted |-> 0, detect |-> 0, sent |-> 0, failed |-> 0]
  /\ lastResult' = None
  /\ xHist' = <<>>
  /\ xCalls' = 0
  /\ cleanups' = 0
  /\ cleanIn' = NoCleanup
  /\ prev_occupancy' = None
  /\ okOccupied' = None
  /\ recorded' = <<>>
  /\ UNCHANGED <<config, now, load>>

Reset == reset_state /\ UNCHANGED <<server, process>>

\* a second passes between two messages
Tick(limit) ==
  /\ now < limit
  /\ now' = now + 1
  /\ cleanIn' = NoCleanup
  /\ UNCHANGED <<config, frame_count, processed_count, seen_plates,
                 last_occupancy, frame_skipper, calls, admitLog, count,
                 lastResult, xHist, xCalls, cleanups, prev_occupancy,
                 okOccupied, recorded, load, server, process>>

PlateLists(n) == UNION {[1..k -> Plates] : k \in 0..n}

\* between two resets a run is bounded by its process_frame calls and by
\* its admitted frames
Budget(maxFrames, maxAdmitted) ==
  /\ calls < maxFrames
  /\ Admission.admit => count.admitted < maxAdmitted

GateStep ==
  \E plates \in PlateLists(MaxPlatesPerFrame), ok \in BOOLEAN, lat \in Latencies :
    Budget(MaxFrames, MaxAdmitted) /\ GateFrame(plates, ok, lat)

LotStep ==
  \E occupied \in 0..MaxSlots, ok \in BOOLEAN, lat \in Latencies :
    \E empty \in 0..(MaxSlots - occupied) :
      Budget(MaxFrames, MaxAdmitted) /\ LotFrame(occupied, empty, ok, lat)

Next ==
  \/ GateStep
  \/ LotStep
  \/ Reset
  \/ Tick(MaxTime)

Spec == Init /\ [][Next]_vars

\* ---- dedup timing: a gate session that processes every frame, with one
\* plate at most in a frame
InitDedup ==
  \E dyn \in BOOLEAN, w \in 1..DedupWindow : InitSession("gate", dyn, 1, w)

DedupStep ==
  \E plates \in PlateLists(1), ok \in BOOLEAN, lat \in Latencies :
    Budget(DedupFrames, DedupFrames) /\ GateFrame(plates, ok, lat)

NextDedup ==
  \/ DedupStep
  \/ Tick(DedupTime)

SpecDedup == InitDedup /\ [][NextDedup]_vars

\* ---- the dedup scenario: a gate session with the default window of 10 s
\* that processes every frame and sees no plate but X, watched for 11 seconds
InitScenario ==
  \E dyn \in BOOLEAN : InitSession("gate", dyn, 1, DefaultDedupWindow)

ScenarioStep ==
  \E plates \in {<<>>, <<X>>}, ok \in BOOLEAN, lat \in Latencies :
    Budget(ScenarioFrames, ScenarioFrames) /\ GateFrame(plates, ok, lat)

NextScenario ==
  \/ ScenarioStep
  \/ Tick(ScenarioTime)

SpecScenario == InitScenario /\ [][NextScenario]_vars

\* ---- cleanup_old_plates applied to the dedup maps a session can hold:
\* any plates, in any insertion order, stamped at any past seconds
RECURSIVE Distinct(_)
Distinct(ps) ==
  ps = <<>> \/ (Head(ps) \notin {ps[i] : i \in 2..Len(ps)} /\ Distinct(Tail(ps)))

Maps(t) ==
  {[i \in 1..Len(ps) |-> [plate |-> ps[i], ts |-> st[i]]] :
     <<ps, st>> \in UNION {{q \in [1..n -> Plates] : Distinct(q)} \X [1..n -> 0..t]
                            : n \in 0..NumPlates}}

InitCleanup ==
  \E t \in 0..DedupTime, w \in 1..DedupWindow, sp \in Maps(DedupTime) :
    /\ \A i \in 1..Len(sp) : sp[i].ts <= t
    /\ InitState("gate", FALSE, 1, w, sp, t)

CleanupCall ==
  /\ cleanups < MaxCleanupCalls
  /\ seen_plates' = cleanup_old_plates(seen_plates, now, dedup_window, MaxTrackedPlates)
  /\ cleanIn' = [ran |-> TRUE, seen |-> seen_plates, t |-> now, w |-> dedup_window]
  /\ cleanups' = cleanups + 1
  /\ UNCHANGED <<config, frame_count, processed_count, last_occupancy,
                 frame_skipper, now, calls, admitLog, count, lastResult, xHist,
                 xCalls, prev_occupancy, okOccupied, recorded, load, server, process>>

NextCleanup ==
  \/ CleanupCall
  \/ Tick(DedupTime)

SpecCleanup == InitCleanup /\ [][NextCleanup]_vars

\* ---- the cleanup cadence: a long run of a gate session whose camera sees
\* no plate and whose detection always succeeds, with the clock standing
\* still
InitCadence ==
  \E dyn \in BOOLEAN, skip \in SkipValues : InitSession("gate", dyn, skip, 1)

CadenceStep ==
  \E lat \in Latencies :
    Budget(LongFrames, LongFrames) /\ GateFrame(<<>>, TRUE, lat)

NextCadence == CadenceStep

SpecCadence == InitCadence /\ [][NextCadence]_vars

\* ---- the skip controller at work: dynamic sessions whose camera keeps
\* showing the same scene (plate X at the gate, one occupied slot in the
\* lot), whose detection succeeds and takes Loads[load] ms, while the load
\* moves on through Loads; the client may reset the session at any time
LoadLatency == Loads[load]

InitSkipper ==
  \E k \in {"gate", "lot"}, skip \in SkipValues, l \in 1..Len(Loads) :
    InitWith(k, TRUE, skip, 1, <<>>, 0, l)

SkipperStep ==
  /\ Budget(SkipperFrames, SkipperFrames)
  /\ \/ GateFrame(<<X>>, TRUE, LoadLatency)
     \/ LotFrame(1, 0, TRUE, LoadLatency)

LoadShift ==
  /\ load < Len(Loads)
  /\ load' = load + 1
  /\ cleanIn' = NoCleanup
  /\ UNCHANGED <<config, frame_count, processed_count, seen_plates,
                 last_occupancy, frame_skipper, now, calls, admitLog, count,
                 lastResult, xHist, xCalls, cleanups, prev_occupancy,
                 okOccupied, recorded, server, process>>

NextSkipper ==
  \/ SkipperStep
  \/ LoadShift
  \/ Reset

SpecSkipper == InitSkipper /\ [][NextSkipper]_vars

\* ---- the skip controller under a steady load: a dynamic session on the
\* same scene, every detection of a run taking the same Loads[load] ms
InitSteady ==
  \E k \in {"gate", "lot"}, skip \in SkipValues, l \in 1..Len(Loads) :
    InitWith(k, TRUE, skip, 1, <<>>, 0, l)

SteadyStep ==
  /\ Budget(SteadyFrames, SteadyFrames)
  /\ \/ GateFrame(<<X>>, TRUE, LoadLatency)
     \/ LotFrame(1, 0, TRUE, LoadLatency)

NextSteady == SteadyStep

SpecSteady == InitSteady /\ [][NextSteady]_vars


\* ------------------------------------------------ the connection registry
\* ConnectionManager: the registry every endpoint shares, an ordered list.
RegistryAdd(reg, c) == Append(reg, c)
RegistryRemove(reg, c) == SelectSeq(reg, LAMBDA x : x # c)
Registered(c) == \E i \in 1..Len(registry) : registry[i] = c

\* what a send to connection c can do: it arrives while the client's end is
\* open; once the client is gone the transport either raises or drops it
SendOutcomes(c) == IF open[c] THEN {"ok"} ELSE {"lost", "raise"}

\* the event loop runs one coroutine at a time: nothing else runs while a
\* handler sits in a synchronous call
LoopFree == \A c \in Conns : pc[c] # "detect"

\* the texts a signaling client sends: a JSON object, a JSON array, no JSON
Offer == "{\"type\": \"offer\"}"
Texts == {Offer, "[1]", "offer"}
\* json.loads(data) followed by message.get("type")
json_loads(text) ==
  IF text = Offer THEN "object" ELSE IF text = "[1]" THEN "array" ELSE "invalid"
Parses(text) == json_loads(text) = "object"

\* `await manager.connect(websocket)`: accept, then register. A signaling
\* client is sent the "connected" greeting next, which arrives: it has just
\* connected. A monitor client's handler builds its session next.
Connect(c, ep) ==
  /\ LoopFree
  /\ pc[c] = "none"
  /\ open[c]
  /\ \A d \in 1..(c - 1) : pc[d] # "none"
  /\ registry' = RegistryAdd(registry, c)
  /\ endpoint' = [endpoint EXCEPT ![c] = ep]
  /\ pc' = [pc EXCEPT ![c] = IF ep = "monitor" THEN "init" ELSE "recv"]
  /\ UNCHANGED <<process, open, iter, inflight, signals, got, events>>
  /\ UNCHANGED <<session, sessionHistory, now, load>>

\* the client closes its end; the handler learns of it at its next await
ClientClose(c) ==
  /\ open[c]
  /\ pc[c] \notin {"none", "ended"}
  /\ Cardinality({d \in Conns : pc[d] \notin {"none", "ended"} /\ ~open[d]})
       + Cardinality({d \in Conns : pc[d] = "ended"}) < MaxCloses
  /\ open' = [open EXCEPT ![c] = FALSE]
  /\ UNCHANGED <<process, registry, endpoint, pc, iter, inflight, signals, got, events>>
  /\ UNCHANGED <<session, sessionHistory, now, load>>

\* the handler of c leaves through an except clause: manager.disconnect; the
\* socket is closed when the handler returns
Leave(c) ==
  /\ registry' = RegistryRemove(registry, c)
  /\ pc' = [pc EXCEPT ![c] = "ended"]
  /\ iter' = [iter EXCEPT ![c] = NoIter]
  /\ open' = [open EXCEPT ![c] = FALSE]

Delivered(c, sig, from, text) ==
  [got EXCEPT ![c] = Append(@, [sig |-> sig, from |-> from, text |-> text])]

\* /ws: receive_text, then send_personal_message back to the sender
EchoReceive(c) ==
  /\ LoopFree
  /\ endpoint[c] = "echo" /\ pc[c] = "recv" /\ open[c]
  /\ Len(got[c]) < MaxEchoes
  /\ got' = Delivered(c, 0, c, "Message")
  /\ UNCHANGED <<process, registry, endpoint, pc, open, iter, inflight, signals, events>>
  /\ UNCHANGED <<session, sessionHistory, now, load>>

\* /ws: receive_text raises WebSocketDisconnect
EchoClosed(c) ==
  /\ LoopFree
  /\ endpoint[c] = "echo" /\ pc[c] = "recv" /\ ~open[c]
  /\ Leave(c)
  /\ UNCHANGED <<process, endpoint, inflight, signals, got, events>>
  /\ UNCHANGED <<session, sessionHistory, now, load>>

\* `for connection in manager.active_connections`: the iterator of a list
\* keeps an index into the live list; idx entries are consumed. The next entry
\* that is not the sender, 0 when the list is exhausted.
RECURSIVE NextTarget(_, _, _)
NextTarget(reg, c, idx) ==
  IF idx >= Len(reg) THEN [idx |-> idx, to |-> 0]
  ELSE IF reg[idx + 1] = c THEN NextTarget(reg, c, idx + 1)
  ELSE [idx |-> idx + 1, to |-> reg[idx + 1]]

Faulted(log, sig, how) == [log EXCEPT ![sig].fault = how]

\* the broadcast loop of c from iterator position idx up to its next await:
\* `await connection.send_text(data)`. The text is handed to the peer's
\* transport at the call; the sender resumes in a later step. An exception
\* out of send_text leaves the loop and the handler.
RelayFrom(c, sig, data, idx, log) ==
  LET nt == NextTarget(registry, c, idx) IN
  IF nt.to = 0
  THEN /\ pc' = [pc EXCEPT ![c] = "recv"]
       /\ iter' = [iter EXCEPT ![c] = NoIter]
       /\ signals' = log
       /\ UNCHANGED <<registry, open, got>>
  ELSE \E o \in SendOutcomes(nt.to) :
         \/ /\ o \in {"ok", "lost"}
            /\ got' = IF o = "ok" THEN Delivered(nt.to, sig, c, data) ELSE got
            /\ pc' = [pc EXCEPT ![c] = "relay"]
            /\ iter' = [iter EXCEPT ![c] = [sig |-> sig, data |-> data,
                                            idx |-> nt.idx, len |-> Len(registry)]]
            /\ signals' = log
            /\ UNCHANGED <<registry, open>>
         \/ /\ o = "raise"
            /\ Leave(c)
            /\ signals' = Faulted(log, sig, "send")
            /\ UNCHANGED got

\* /ws/webrtc-signaling: one text arrives; json.loads, message.get, then the
\* broadcast loop starts
SignalReceive(c, text) ==
  /\ LoopFree
  /\ endpoint[c] = "signal" /\ pc[c] = "recv" /\ open[c]
  /\ Len(signals) < MaxSignals
  /\ LET log == Append(signals, [from |-> c, text |-> text, reg |-> registry,
                                 fault |-> "none"])
     IN IF Parses(text)
        THEN RelayFrom(c, Len(log), text, 0, log)
        ELSE /\ Leave(c)
             /\ signals' = Faulted(log, Len(log), "parse")
             /\ UNCHANGED got
  /\ UNCHANGED <<process, endpoint, inflight, events>>
  /\ UNCHANGED <<session, sessionHistory, now, load>>

\* the sender resumes after a send_text and goes round the loop. When the
\* registry was resized meanwhile, a list iterator carries on by index; the
\* iterator of a set raises RuntimeError.
RelayStep(c) ==
  /\ LoopFree
  /\ pc[c] = "relay"
  /\ \/ RelayFrom(c, iter[c].sig, iter[c].data, iter[c].idx, signals)
     \/ /\ Len(registry) # iter[c].len
        /\ Leave(c)
        /\ signals' = Faulted(signals, iter[c].sig, "iteration")
        /\ UNCHANGED got
  /\ UNCHANGED <<process, endpoint, inflight, events>>
  /\ UNCHANGED <<session, sessionHistory, now, load>>

\* /ws/webrtc-signaling: receive_text raises WebSocketDisconnect
SignalClosed(c) ==
  /\ LoopFree
  /\ endpoint[c] = "signal" /\ pc[c] = "recv" /\ ~open[c]
  /\ Leave(c)
  /\ UNCHANGED <<process, endpoint, inflight, signals, got, events>>
  /\ UNCHANGED <<session, sessionHistory, now, load>>

\* ---- the relay: clients of /ws/webrtc-signaling; no monitor session is
\* running
InitRelay == InitWith("gate", FALSE, 1, 1, <<>>, 0, 1)

NextRelay ==
  \E c \in Conns :
    \/ Connect(c, "signal")
    \/ ClientClose(c)
    \/ \E text \in Texts : SignalReceive(c, text)
    \/ RelayStep(c)
    \/ SignalClosed(c)

SpecRelay == InitRelay /\ [][NextRelay]_vars

\* ------------------------------------------------ the monitor endpoints
\* /ws/gate-monitor and /ws/lot-monitor: the same handler around the two
\* processors. Connection Monitor runs the one monitor session.
Monitor == 1

\* the messages a monitor client sends: raw bytes, or a text that is no JSON,
\* a JSON array, or a JSON object with or without "type" and "data"
Msg(form, type, data) == [form |-> form, type |-> type, data |-> data]
Messages ==
  {Msg("bytes", "none", "good"), Msg("invalid", "none", "none"),
   Msg("array", "none", "none")}
  \cup {Msg("object", type, data) :
          type \in {"reset", "stats", "none"}, data \in {"none", "good"}}

\* the branch of the dispatch a message takes (lines 160-208): control types
\* are looked at before the data field
DispatchDataFirst(m) ==
  IF m.data = "good" THEN "frame"
  ELSE IF m.form = "invalid" THEN "invalid_json"
  ELSE IF m.form = "array" THEN "decode_error"
  ELSE IF m.type \in {"reset", "stats"} THEN m.type
  ELSE "ignored"
Dispatch(m) ==
  IF m.form = "bytes" THEN "frame"
  ELSE IF m.form = "invalid" THEN "invalid_json"
  ELSE IF m.form = "array" THEN "decode_error"
  ELSE IF m.type \in {"reset", "stats"} THEN m.type
  ELSE IF m.data = "good" THEN "frame"
  ELSE "ignored"

\* get_stats() of either processor
get_stats ==
  [total_frames |-> frame_count, processed_frames |-> processed_count,
   skip_rate |-> skip_frames,
   gauge |-> IF kind = "gate" THEN Some(Len(seen_plates)) ELSE last_occupancy]

\* the history of the monitor handler
Ev(ev, n, what) == [ev |-> ev, n |-> n, what |-> what]
Arrived == Cardinality({i \in 1..Len(events) : events[i].ev = "recv"})

\* process_frame entered with an admitted frame whose detection call does not
\* return a result: it raises, or it never returns. The frame is counted and
\* nothing after the call is done.
process_frame_unreturned ==
  LET adm == Admission
  IN /\ adm.admit
     /\ frame_count' = adm.fc
     /\ frame_skipper' = adm.sk
     /\ calls' = calls + 1
     /\ admitLog' = Append(admitLog, [admit |-> TRUE, skip |-> adm.skip])
     /\ count' = [count EXCEPT !.admitted = @ + 1, !.detect = @ + 1]
     /\ lastResult' = None
     /\ cleanIn' = NoCleanup
     /\ UNCHANGED <<config, processed_count, seen_plates, last_occupancy, now,
                    xHist, xCalls, cleanups, prev_occupancy, okOccupied,
                    recorded, load>>

\* process_frame of the session's processor with what the detection returns
process_frame(ok) ==
  \/ gate_process_frame(<<X>>, ok, 20)
  \/ lot_process_frame(1, 0, ok, 20)

\* `await websocket.send_json(...)`: the handler goes no further until the
\* send has returned
AwaitingNot == "recv"
Awaiting == "reply"

\* the "type" of a reply; a failure envelope carries none
ReplyType(reply) == IF "type" \in DOMAIN reply THEN reply.type ELSE "failure"

\* the handler hands `reply` to send_json
StartReply(c, reply) ==
  /\ inflight' = [inflight EXCEPT ![c] = Some(reply)]
  /\ pc' = [pc EXCEPT ![c] = Awaiting]

\* `processor = PlateStreamProcessor()` and the "connection" greeting; the
\* constructor is outside the try block
MonitorStart(c, built) ==
  /\ LoopFree
  /\ endpoint[c] = "monitor" /\ pc[c] = "init"
  /\ IF built
     THEN /\ StartReply(c, [type |-> "connection"])
          /\ events' = Append(events, Ev("reply", 0, "connection"))
          /\ UNCHANGED open
     ELSE /\ pc' = [pc EXCEPT ![c] = "ended"]
          /\ open' = [open EXCEPT ![c] = FALSE]
          /\ UNCHANGED <<inflight, events>>
  /\ UNCHANGED <<process, registry, endpoint, iter, signals, got>>
  /\ UNCHANGED <<session, sessionHistory, now, load>>

\* one message arrives and is dispatched, up to the next await
MonitorReceive(c, m) ==
  /\ LoopFree
  /\ endpoint[c] = "monitor" /\ pc[c] = "recv" /\ open[c]
  /\ Arrived < MaxMessages
  /\ LET n == Arrived + 1
         branch == Dispatch(m)
         seen == Append(events, Ev("recv", n, m))
     IN \/ /\ branch = "reset"
           /\ reset_state
           /\ StartReply(c, [type |-> "reset_ack"])
           /\ events' = Append(seen, Ev("reply", n, "reset_ack"))
        \/ /\ branch = "stats"
           /\ StartReply(c, [type |-> "stats", data |-> get_stats])
           /\ events' = Append(seen, Ev("reply", n, "stats"))
           /\ UNCHANGED <<session, sessionHistory, now, load>>
        \/ /\ branch \in {"invalid_json", "decode_error"}
           /\ StartReply(c, [type |-> "error", error |-> branch])
           /\ events' = Append(seen, Ev("reply", n, "error"))
           /\ UNCHANGED <<session, sessionHistory, now, load>>
        \/ /\ branch = "ignored"
           /\ events' = seen
           /\ UNCHANGED <<pc, inflight>>
           /\ UNCHANGED <<session, sessionHistory, now, load>>
        \/ /\ branch = "frame"
           /\ \/ \E ok \in BOOLEAN :
                   /\ process_frame(ok)
                   /\ IF lastResult' # None
                      THEN /\ StartReply(c, lastResult'[1])
                           /\ events' = seen \o <<Ev("process", n, "returned"),
                                                  Ev("reply", n, "result")>>
                      ELSE /\ events' = Append(seen, Ev("process", n, "returned"))
                           /\ UNCHANGED <<pc, inflight>>
              \/ /\ process_frame_unreturned
                 /\ pc' = [pc EXCEPT ![c] = "fault"]
                 /\ events' = seen \o <<Ev("process", n, "raised")>>
                 /\ UNCHANGED inflight
              \/ /\ process_frame_unreturned
                 /\ pc' = [pc EXCEPT ![c] = "detect"]
                 /\ events' = seen \o <<Ev("process", n, "hung")>>
                 /\ UNCHANGED inflight
  /\ UNCHANGED <<process, registry, endpoint, open, iter, signals, got>>

\* the send_json in flight returns. A send to a client that is gone is
\* dropped, or it raises: every except clause then ends in manager.disconnect
\* (an error send on the way fails likewise and is swallowed).
SendDone(c) ==
  /\ LoopFree
  /\ endpoint[c] = "monitor" /\ inflight[c] # None
  /\ inflight' = [inflight EXCEPT ![c] = None]
  /\ \E o \in SendOutcomes(c) :
       \/ /\ o \in {"ok", "lost"}
          /\ pc' = [pc EXCEPT ![c] = IF @ = Awaiting THEN "recv" ELSE @]
          /\ events' = IF o = "ok"
                       THEN Append(events, Ev("sent", Arrived, ReplyType(inflight[c][1])))
                       ELSE events
          /\ UNCHANGED <<registry, iter, open>>
       \/ /\ o = "raise"
          /\ Leave(c)
          /\ UNCHANGED events
  /\ UNCHANGED <<process, endpoint, signals, got>>
  /\ UNCHANGED <<session, sessionHistory, now, load>>

\* receive() on a closed transport: the disconnect message matches no branch,
\* the next receive() raises RuntimeError, the error send fails and is
\* swallowed, manager.disconnect
MonitorClosed(c) ==
  /\ LoopFree
  /\ endpoint[c] = "monitor" /\ pc[c] = "recv" /\ ~open[c]
  /\ Leave(c)
  /\ UNCHANGED <<process, endpoint, inflight, signals, got, events>>
  /\ UNCHANGED <<session, sessionHistory, now, load>>

\* `except Exception`: the error send is in a try of its own whose except
\* clause passes, manager.disconnect comes after it in every case
AfterErrorSendUnguarded(o, reg, c) == IF o = "raise" THEN reg ELSE RegistryRemove(reg, c)
AfterErrorSend(o, reg, c) == RegistryRemove(reg, c)

MonitorFault(c) ==
  /\ LoopFree
  /\ endpoint[c] = "monitor" /\ pc[c] = "fault"
  /\ \E o \in SendOutcomes(c) :
       /\ events' = Append(events, Ev("error", Arrived, o))
       /\ registry' = AfterErrorSend(o, registry, c)
  /\ pc' = [pc EXCEPT ![c] = "ended"]
  /\ open' = [open EXCEPT ![c] = FALSE]
  /\ UNCHANGED <<process, endpoint, iter, inflight, signals, got>>
  /\ UNCHANGED <<session, sessionHistory, now, load>>

\* ---- the dispatch: one monitor session with fixed skipping, a gate that
\* admits every frame or a lot that admits every second one, and beside it on
\* the same event loop one peer, a signaling or an echo client
Peer == 2

InitDispatch ==
  \/ InitSession("gate", FALSE, 1, 1)
  \/ InitSession("lot", FALSE, 2, 1)

NextDispatch ==
  \/ Connect(Monitor, "monitor")
  \/ \E ep \in {"signal", "echo"} : Connect(Peer, ep)
  \/ \E c \in {Monitor, Peer} : ClientClose(c)
  \/ \E built \in BOOLEAN : MonitorStart(Monitor, built)
  \/ \E m \in Messages : MonitorReceive(Monitor, m)
  \/ SendDone(Monitor)
  \/ MonitorClosed(Monitor)
  \/ MonitorFault(Monitor)
  \/ SignalReceive(Peer, Offer)
  \/ RelayStep(Peer)
  \/ SignalClosed(Peer)
  \/ EchoReceive(Peer)
  \/ EchoClosed(Peer)

SpecDispatch == InitDispatch /\ [][NextDispatch]_vars

\* ------------------------------------------------ the detection capability
\* get_pipeline / get_detector and get_plate_pipeline / get_parking_detector:
\* `if holder is None: holder = Class()`, `return holder`. What the holder is
\* afterwards: a new instance of kind k is numbered after those before it.
GetOrCreate(held, k) == IF held = None THEN Some(instances[k] + 1) ELSE held
Constructed(held, k) ==
  IF held = None THEN [instances EXCEPT ![k] = @ + 1] ELSE instances

\* inside detect_plates / detect_slots: the frame is written to the temporary
\* file, or the prediction has returned and the file is not yet removed
InCall(i) == caller[i].at \in {"saved", "predicted"}

\* every caller of detection is a coroutine of the one event loop (the
\* websocket handlers and the `async def` upload endpoints) and calls it
\* without await: none runs while another is inside the call
LoopIdleThreaded == TRUE
LoopIdle == \A i \in Callers : ~InCall(i)

\* image.save(temp_path) of a call of caller i: the call is entered
Saved(i, k) ==
  /\ temp' = [temp EXCEPT ![k] = i]

\* PlateRecognitionPipeline.process(image_bytes): detection comes first, the
\* pipeline calls detect_plates of its detector on the frame, in the thread
\* of its caller
pipeline_process(i) == Saved(i, "plate")

\* the call of caller i into the capability of kind k: pipeline.process
\* (main.py 65, stream_processor.py 146) or detector.detect_slots (main.py 77,
\* stream_processor.py 129)
Invoke(i, k) == IF k = "plate" THEN pipeline_process(i) ELSE Saved(i, "parking")

\* `processor = PlateStreamProcessor()` / `ParkingStreamProcessor()` of a new
\* monitor connection: self.pipeline = self.get_pipeline()
SessionCreate(i, k) ==
  /\ LoopIdle
  /\ caller[i].via = "none"
  /\ \A j \in 1..(i - 1) : caller[j].via # "none"
  /\ LET held == IF k = "plate" THEN shared_pipeline ELSE shared_detector
         mine == GetOrCreate(held, k)
     IN /\ instances' = Constructed(held, k)
        /\ shared_pipeline' = IF k = "plate" THEN mine ELSE shared_pipeline
        /\ shared_detector' = IF k = "parking" THEN mine ELSE shared_detector
        /\ caller' = [caller EXCEPT ![i] = [via |-> "session", kind |-> k,
                                            ref |-> mine[1], at |-> "idle",
                                            n |-> 0]]
  /\ UNCHANGED <<plate_pipeline, parking_detector, temp>>
  /\ UNCHANGED <<session, sessionHistory, now, load, server, others>>

\* POST /api/recognize-plate and /api/detect-parking-slots once the upload is
\* read: the getter of main.py, then the detection call in the same run
UploadRequest(i, k) ==
  /\ LoopIdle
  /\ caller[i].via = "none"
  /\ \A j \in 1..(i - 1) : caller[j].via # "none"
  /\ LET held == IF k = "plate" THEN plate_pipeline ELSE parking_detector
         mine == GetOrCreate(held, k)
     IN /\ instances' = Constructed(held, k)
        /\ plate_pipeline' = IF k = "plate" THEN mine ELSE plate_pipeline
        /\ parking_detector' = IF k = "parking" THEN mine ELSE parking_detector
        /\ caller' = [caller EXCEPT ![i] = [via |-> "upload", kind |-> k,
                                            ref |-> mine[1], at |-> "saved",
                                            n |-> 1]]
  /\ Invoke(i, k)
  /\ UNCHANGED <<shared_pipeline, shared_detector>>
  /\ UNCHANGED <<session, sessionHistory, now, load, server, others>>

\* a session's process_frame with an admitted frame reaches the detector
DetectEnter(i) ==
  /\ LoopIdle
  /\ caller[i].via = "session" /\ caller[i].at = "idle"
  /\ caller[i].n < MaxDetects
  /\ caller' = [caller EXCEPT ![i].at = "saved", ![i].n = @ + 1]
  /\ Invoke(i, caller[i].kind)
  /\ UNCHANGED <<plate_pipeline, parking_detector, shared_pipeline,
                 shared_detector, instances>>
  /\ UNCHANGED <<session, sessionHistory, now, load, server, others>>

\* where a caller is once its call is over: a session awaits its next frame,
\* an upload request is answered
Returned(i) == IF caller[i].via = "session" THEN "idle" ELSE "returned"

\* self.model.predict(temp_path, ...).json(): it returns, or it raises and
\* the except clause returns the failure with the file left behind
DetectPredict(i, ok) ==
  /\ caller[i].at = "saved"
  /\ caller' = [caller EXCEPT ![i].at = IF ok THEN "predicted" ELSE Returned(i)]
  /\ UNCHANGED <<plate_pipeline, parking_detector, shared_pipeline,
                 shared_detector, instances, temp>>
  /\ UNCHANGED <<session, sessionHistory, now, load, server, others>>

\* `if os.path.exists(temp_path): os.remove(temp_path)`, then the result is
\* built and returned
DetectRemove(i) ==
  /\ caller[i].at = "predicted"
  /\ temp' = [temp EXCEPT ![caller[i].kind] = 0]
  /\ caller' = [caller EXCEPT ![i].at = Returned(i)]
  /\ UNCHANGED <<plate_pipeline, parking_detector, shared_pipeline,
                 shared_detector, instances>>
  /\ UNCHANGED <<session, sessionHistory, now, load, server, others>>

\* ---- the capability: monitor sessions and upload requests of both kinds on
\* one event loop
InitCapability == InitSession("gate", FALSE, 1, 1)

NextCapability ==
  \E i \in Callers :
    \/ \E k \in Kinds : SessionCreate(i, k)
    \/ \E k \in Kinds : UploadRequest(i, k)
    \/ DetectEnter(i)
    \/ \E ok \in BOOLEAN : DetectPredict(i, ok)
    \/ DetectRemove(i)

SpecCapability == InitCapability /\ [][NextCapability]_vars

\* ------------------------------------------------ sessions side by side
\* `processor = PlateStreamProcessor()` is a local of each handler; __init__
\* assigns every attribute on self. The attributes of the running handler's
\* processor, with the history kept of it:
Snapshot ==
  [kind |-> kind, use_dynamic_skipping |-> use_dynamic_skipping,
   skip_frames |-> skip_frames, dedup_window |-> dedup_window,
   frame_count |-> frame_count, processed_count |-> processed_count,
   seen_plates |-> seen_plates, last_occupancy |-> last_occupancy,
   frame_skipper |-> frame_skipper,
   calls |-> calls, admitLog |-> admitLog, count |-> count,
   lastResult |-> lastResult, xHist |-> xHist, xCalls |-> xCalls,
   cleanups |-> cleanups, cleanIn |-> cleanIn,
   prev_occupancy |-> prev_occupancy, okOccupied |-> okOccupied,
   recorded |-> recorded]

\* the processor a handler on the same endpoint constructs: the environment
\* gives it the same configuration
NewProcessor ==
  [Snapshot EXCEPT
     !.frame_count = 0, !.processed_count = 0, !.seen_plates = <<>>,
     !.last_occupancy = None,
     !.frame_skipper = IF kind = "gate" THEN NewSkipper(skip_frames, 1, 30, 10)
                       ELSE NewSkipper(skip_frames, 2, 50, 5),
     !.calls = 0, !.admitLog = <<>>,
     !.count = [admitted |-> 0, detect |-> 0, sent |-> 0, failed |-> 0],
     !.lastResult = None, !.xHist = <<>>, !.xCalls = 0, !.cleanups = 0,
     !.cleanIn = NoCleanup, !.prev_occupancy = None, !.okOccupied = None,
     !.recorded = <<>>]

\* what a handler finds in its processor when it runs again, `own` being
\* what it left there and `running` the processor of the handler that ran
\* meanwhile: the attributes are instance attributes, none is a class
\* attribute
AttributesOfClass(own, running) ==
  [own EXCEPT !.seen_plates = running.seen_plates,
              !.last_occupancy = running.last_occupancy,
              !.frame_skipper = running.frame_skipper]
AttributesOf(own, running) == own

Exists(c) == c = active \/ parked[c] # None
Closed(c) == inputs[c] # <<>> /\ inputs[c][Len(inputs[c])].op = "close"

\* a second client connects to the same endpoint: its handler constructs its
\* processor and awaits its first message
Accept(c) ==
  /\ ~Exists(c)
  /\ parked' = [parked EXCEPT ![c] = Some(NewProcessor)]
  /\ UNCHANGED <<active, inputs, capability>>
  /\ UNCHANGED <<session, sessionHistory, now, load, server>>

\* the event loop turns to the handler of session c, which has a message
Resume(c) ==
  /\ c # active /\ Exists(c) /\ ~Closed(c)
  /\ Len(inputs[c]) < MaxInputs
  /\ LET mine == AttributesOf(parked[c][1], Snapshot)
     IN /\ kind' = mine.kind
        /\ use_dynamic_skipping' = mine.use_dynamic_skipping
        /\ skip_frames' = mine.skip_frames
        /\ dedup_window' = mine.dedup_window
        /\ frame_count' = mine.frame_count
        /\ processed_count' = mine.processed_count
        /\ seen_plates' = mine.seen_plates
        /\ last_occupancy' = mine.last_occupancy
        /\ frame_skipper' = mine.frame_skipper
        /\ calls' = mine.calls
        /\ admitLog' = mine.admitLog
        /\ count' = mine.count
        /\ lastResult' = mine.lastResult
        /\ xHist' = mine.xHist
        /\ xCalls' = mine.xCalls
        /\ cleanups' = mine.cleanups
        /\ cleanIn' = mine.cleanIn
        /\ prev_occupancy' = mine.prev_occupancy
        /\ okOccupied' = mine.okOccupied
        /\ recorded' = mine.recorded
  /\ parked' = [parked EXCEPT ![active] = Some(Snapshot), ![c] = None]
  /\ active' = c
  /\ UNCHANGED <<inputs, capability, now, load, server>>

\* a message of the running session's client, with what detection and the
\* clock give
Input(op, ok) == [op |-> op, ok |-> ok, t |-> now]
Receives(in) ==
  /\ ~Closed(active)
  /\ Len(inputs[active]) < MaxInputs
  /\ inputs' = [inputs EXCEPT ![active] = Append(@, in)]
  /\ UNCHANGED <<active, parked, capability, server>>

\* a frame: processor.process_frame(frame_bytes)
SessionFrame(ok) == process_frame(ok) /\ Receives(Input("frame", ok))

\* {"type": "reset"}: processor.reset_state()
SessionReset == reset_state /\ Receives(Input("reset", TRUE))

\* the client disconnects: processor.get_stats(), the handler returns
SessionClose ==
  /\ Receives(Input("close", TRUE))
  /\ UNCHANGED <<session, sessionHistory, now, load>>

\* ---- two sessions of one endpoint on one event loop, in either skipping
\* mode: a gate that admits every frame, or a lot that admits every second,
\* with the clock standing still
InitSessions ==
  \E dyn \in BOOLEAN :
    \/ InitSession("gate", dyn, 1, 1)
    \/ InitSession("lot", dyn, 2, 1)

NextSessions ==
  \/ Accept(Twin)
  \/ \E c \in Sessions : Resume(c)
  \/ \E ok \in BOOLEAN : SessionFrame(ok)
  \/ SessionReset
  \/ SessionClose

SpecSessions == InitSessions /\ [][NextSessions]_vars

\* ------------------------------------------------------------- properties
Result == lastResult[1]
Replied == lastResult # None
Succeeded == Replied /\ Result.success
Failed == Replied /\ ~Result.success

\* calls 1..k of the session were all decided with the skip interval of call 1
SkipStayed(k) == \A j \in 1..k : admitLog[j].skip = admitLog[1].skip

\* C1: from a fresh or freshly reset session, while the skip interval stays
\* s, the k-th process_frame call is admitted iff k is a multiple of s, on
\* the fixed path and on the DynamicFrameSkipper path.
C1_AdmitsMultiplesOfSkip ==
  \A k \in 1..Len(admitLog) :
    SkipStayed(k) => (admitLog[k].admit <=> k % admitLog[1].skip = 0)

\* ten calls with s = 5: admitted are exactly calls 5 and 10
C1_Witness ==
  /\ Len(admitLog) = 10
  /\ skip_frames = 5
  /\ {k \in 1..10 : admitLog[k].admit} = {5, 10}

\* C2: an admitted frame gets exactly one envelope, sent as one message; a
\* frame that is not admitted returns None and nothing is sent; the frame
\* messages sent so far are as many as the admitted frames.
C2_OneOutcomePerAdmittedFrame ==
  /\ count.sent = count.admitted
  /\ calls > 0 => (Replied <=> admitLog[calls].admit)

C2_Witness ==
  /\ count.sent = 2
  /\ calls >= 4
  /\ calls > 0 /\ ~admitLog[calls].admit /\ ~Replied

\* C3: detection is invoked once per admitted frame and never for a skipped
\* one, also when it fails: invocations = admitted frames.
C3_DetectionOnlyWhenAdmitted == count.detect = count.admitted

C3_Witness ==
  /\ Failed
  /\ count.detect = 2
  /\ calls > count.detect

XPairs == 1..(Len(xHist) - 1)

\* C4: after is_duplicate(X) stamped X at t0 (a miss), the next
\* is_duplicate(X), at t0 + d, returns true iff d < window.
C4_DuplicateIffWithinWindow ==
  \A i \in XPairs :
    ~xHist[i].dup =>
      (xHist[i + 1].dup <=> xHist[i + 1].t - xHist[i].t < dedup_window)

\* the boundary d = window (a miss) after a call with d < window (a hit)
C4_Witness ==
  \E i \in XPairs :
    /\ ~xHist[i].dup /\ ~xHist[i + 1].dup
    /\ xHist[i + 1].t - xHist[i].t = dedup_window
    /\ dedup_window > 1

LastMiss == CHOOSE i \in 1..Len(xHist) :
              ~xHist[i].dup /\ \A j \in (i + 1)..Len(xHist) : xHist[j].dup

C7_MapBounded == Len(seen_plates) <= MaxTrackedPlates

\* C10: detect_state_change emits nothing on the first observation after
\* creation or reset and nothing when the value equals the baseline; for a
\* value c different from the baseline p it emits {previous p, current c,
\* change c - p, direction increased if c > p else decreased}.
C10_StateChangeEvent ==
  (kind = "lot" /\ Succeeded) =>
    LET c == Result.occupied
        p == prev_occupancy
    IN IF p = None \/ p = Some(c) THEN Result.state_change = None
       ELSE Result.state_change =
              Some([previous |-> p[1], current |-> c, change |-> c - p[1],
                    direction |-> IF c > p[1] THEN "increased" ELSE "decreased"])

C10_Witness ==
  /\ kind = "lot" /\ Succeeded
  /\ prev_occupancy = Some(2)
  /\ Result.occupied = 1
  /\ Result.state_change # None
  /\ Result.state_change[1].direction = "decreased"

\* C6: with window = 10, an identity detected at t = 0, 5 and 11 and at no
\* other time is reported is_new = true, false, true; every envelope has
\* plates_detected = number of plate records and new_plates = number of
\* records with is_new.
C6_ScenarioNewDupNew ==
  /\ (dedup_window = 10 /\ xCalls = 3 /\ Len(xHist) = 3
      /\ <<xHist[1].t, xHist[2].t, xHist[3].t>> = <<0, 5, 11>>)
       => <<xHist[1].dup, xHist[2].dup, xHist[3].dup>> = <<FALSE, TRUE, FALSE>>
  /\ (kind = "gate" /\ Succeeded) =>
       /\ Result.plates_detected = Len(Result.plates)
       /\ Result.new_plates =
            Cardinality({i \in 1..Len(Result.plates) : Result.plates[i].is_new})

C6_Witness ==
  /\ dedup_window = 10 /\ xCalls = 3 /\ Len(xHist) = 3
  /\ <<xHist[1].t, xHist[2].t, xHist[3].t>> = <<0, 5, 11>>
  /\ Succeeded /\ Result.timestamp = 11
  /\ Result.plates = <<[plate_number |-> X, is_new |-> TRUE]>>
  /\ Result.new_plates = 1

\* entries of the cleanup's input that pass the age test but are not kept
DroppedByCap ==
  {i \in 1..Len(cleanIn.seen) :
     /\ cleanIn.t - cleanIn.seen[i].ts <= 2 * cleanIn.w
     /\ cleanIn.seen[i].plate \notin Tracked(seen_plates)}

\* C8: right after cleanup_old_plates (a) no entry is older than 2 * window,
\* (b) at most max_tracked_plates entries remain, (c) every entry kept is at
\* least as recent as every entry the size cap dropped; the entries kept are
\* entries of the input.
C8_CleanupPostcondition ==
  cleanIn.ran =>
    /\ \A i \in 1..Len(seen_plates) : cleanIn.t - seen_plates[i].ts <= 2 * cleanIn.w
    /\ Len(seen_plates) <= MaxTrackedPlates
    /\ \A i \in 1..Len(seen_plates), j \in DroppedByCap :
         seen_plates[i].ts >= cleanIn.seen[j].ts
    /\ \A i \in 1..Len(seen_plates) :
         \E j \in 1..Len(cleanIn.seen) : seen_plates[i] = cleanIn.seen[j]

\* the cap drops the older entry, which was inserted last
C8_Witness ==
  /\ cleanIn.ran
  /\ DroppedByCap # {}
  /\ Len(seen_plates) = MaxTrackedPlates
  /\ \E j \in DroppedByCap : \A i \in 1..Len(seen_plates) :
       seen_plates[i].ts > cleanIn.seen[j].ts
  /\ cleanIn.seen[Len(cleanIn.seen)].plate \notin Tracked(seen_plates)

\* C9: whenever the raw frame count reaches a multiple of 50,
\* cleanup_old_plates runs, admitted frame or not, for every skip interval
\* and mode: after n frames it has run at least n div 50 times.
C9_CleanupEvery50RawFrames == cleanups >= calls \div CleanupInterval

\* a process_frame call that returned a success envelope
SuccessStep == calls' = calls + 1 /\ Succeeded'

\* C11: in a lot session, after every successful frame last_occupancy is
\* that frame's occupied count; the envelope carries state_change iff its
\* occupied count differs from the one of the previous successful frame
\* since creation or reset, and state_change.previous is that count.
C11_BaselineFollowsEveryFrame ==
  [][(kind = "lot" /\ SuccessStep) =>
       /\ last_occupancy' = Some(Result'.occupied)
       /\ Result'.state_change # None
            <=> (okOccupied # None /\ okOccupied # Some(Result'.occupied))
       /\ Result'.state_change # None
            => Result'.state_change[1].previous = okOccupied[1]]_vars

\* the second successful frame sees one car more than the first
C11_Witness ==
  /\ kind = "lot" /\ Succeeded
  /\ processed_count = 2
  /\ prev_occupancy = Some(1)
  /\ Result.occupied = 2
  /\ Result.state_change # None
  /\ Result.state_change[1].previous = 1
  /\ last_occupancy = Some(2)

\* ---- the skip controller
\* the skip interval in force
SkipNow == IF use_dynamic_skipping THEN frame_skipper.skip_frames ELSE skip_frames
\* the skip interval after call j of the run
SkipAfter(j) == IF j < Len(admitLog) THEN admitLog[j + 1].skip ELSE SkipNow
\* the calls of the run that changed the skip interval
ChangeCalls == {j \in 1..Len(admitLog) : SkipAfter(j) # admitLog[j].skip}
\* the latest change before call j, 0 when there is none
PrevChange(j) ==
  LET before == {i \in ChangeCalls : i < j}
  IN IF before = {} THEN 0 ELSE CHOOSE i \in before : \A h \in before : h <= i
AdmittedIn(a, b) == Cardinality({i \in a..b : admitLog[i].admit})
\* a process_frame call (any outcome)
FrameStep == calls' = calls + 1
\* a process_frame call in which _adjust_skip_rate ran
Evaluated ==
  /\ FrameStep
  /\ frame_skipper'.last_adjustment_frame # frame_skipper.last_adjustment_frame
RingMixed ==
  \E i, j \in 1..Len(frame_skipper.processing_times) :
    frame_skipper.processing_times[i] # frame_skipper.processing_times[j]

\* C12: in a dynamic session min_skip <= skip_interval <= max_skip in every
\* reachable state, whatever initial skip the session was constructed with.
C12_SkipWithinBounds ==
  use_dynamic_skipping =>
    /\ frame_skipper.min_skip <= frame_skipper.skip_frames
    /\ frame_skipper.skip_frames <= frame_skipper.max_skip

ChangesSpaced == \A j \in ChangeCalls : j - PrevChange(j) >= adjustment_interval

\* C14 as stated: between two consecutive recomputations of skip_interval,
\* and between creation / reset and the first one, at least 20 frames were
\* admitted.
C14_TwentyAdmittedBetween ==
  \A j \in ChangeCalls : AdmittedIn(PrevChange(j) + 1, j) >= adjustment_interval

\* C14 amended: _adjust_skip_rate runs only in a frame that is at least 20
\* received frames (admitted or not) after the previous run, or after
\* creation / reset; last_adjustment_frame is the frame of the latest run;
\* only such a frame changes skip_interval, so two consecutive changes are at
\* least 20 received frames apart.
C14_TwentyReceivedBetween ==
  [][use_dynamic_skipping =>
       /\ Evaluated =>
            /\ frame_skipper'.frame_count = calls'
            /\ calls' - frame_skipper.last_adjustment_frame >= adjustment_interval
            /\ frame_skipper'.last_adjustment_frame = calls'
       /\ (FrameStep /\ SkipNow' # SkipNow) => Evaluated
       /\ ChangesSpaced']_vars

\* two changes 20 frames apart with 5 admitted frames between them
C14_Witness ==
  /\ use_dynamic_skipping
  /\ calls \in ChangeCalls
  /\ PrevChange(calls) > 0
  /\ calls - PrevChange(calls) = adjustment_interval
  /\ AdmittedIn(PrevChange(calls) + 1, calls) = 5

\* C15: skip_interval never changes while the ring holds fewer than 5
\* samples recorded since creation or the last reset; the first 4 admitted
\* frames after creation or reset never change it.
C15_NoChangeBelowFiveSamples ==
  [][SkipNow' # SkipNow =>
       /\ Len(frame_skipper'.processing_times) >= MinSamples
       /\ count'.admitted >= MinSamples]_vars

\* after a reset of a session whose interval had moved, the fifth admitted
\* frame changes it again
C15_Witness ==
  /\ use_dynamic_skipping
  /\ admitLog # <<>> /\ admitLog[1].skip # skip_frames
  /\ calls \in ChangeCalls
  /\ count.admitted = MinSamples
  /\ Len(frame_skipper.processing_times) = MinSamples

\* what the evaluation of a step saw: the mean of the ring against the
\* time available at the interval then in force
SawLow ==
  LET n == Len(frame_skipper'.processing_times)
  IN /\ Evaluated /\ n >= MinSamples
     /\ Sum(frame_skipper'.processing_times) * frame_skipper.target_fps
          < 600 * frame_skipper.skip_frames * n
SawHigh ==
  LET n == Len(frame_skipper'.processing_times)
  IN /\ Evaluated /\ n >= MinSamples
     /\ Sum(frame_skipper'.processing_times) * frame_skipper.target_fps
          > 900 * frame_skipper.skip_frames * n

\* C16: an adjustment that sees the mean latency below 0.6 * available
\* never raises skip_interval, and one that sees it above 0.9 * available
\* never lowers it (so a run in which every adjustment sees the one or the
\* other moves monotonically to min_skip or to max_skip).
C16_MonotoneConvergence ==
  [][/\ SawLow => SkipNow' <= SkipNow
     /\ SawHigh => SkipNow' >= SkipNow]_vars

\* C17: with every admitted frame taking the same time, skip_interval
\* never comes back to a value it has left (it changes finitely often and
\* does not cycle).
C17_NoOscillation ==
  \A i, j \in ChangeCalls : i <= j => SkipAfter(j) # admitLog[i].skip

\* C18: reset_state zeroes frame_count and processed_count, empties the
\* dedup map, unsets last_occupancy and clears the controller's ring and
\* counters; it leaves the current skip_interval and the configuration
\* (mode, dedup window) alone: the state after it is the state of a fresh
\* session constructed with that skip_interval.
C18_ResetIsFresh ==
  [][calls' = 0 =>
       /\ frame_count' = 0
       /\ processed_count' = 0
       /\ seen_plates' = <<>>
       /\ last_occupancy' = None
       /\ config' = config
       /\ use_dynamic_skipping =>
            frame_skipper' = NewSkipper(frame_skipper.skip_frames,
                                        frame_skipper.min_skip,
                                        frame_skipper.max_skip,
                                        frame_skipper.target_fps)]_vars

\* a freshly reset session whose interval had moved away from the one it
\* was constructed with
C18_Witness ==
  /\ calls = 0
  /\ use_dynamic_skipping
  /\ frame_skipper.skip_frames = skip_frames + 2
  /\ frame_skipper.processing_times = <<>>
  /\ frame_count = 0 /\ processed_count = 0
  /\ seen_plates = <<>> /\ last_occupancy = None

\* a process_frame call whose detection reported failure
FailureStep == FrameStep /\ count'.failed = count.failed + 1

\* C19: when detection reports failure for an admitted frame, process_frame
\* returns {success: false, error, frame_number, timestamp} and nothing
\* else, and the dedup map and last_occupancy are as before the call.
C19_FailureSkipsPostProcessing ==
  [][FailureStep =>
       /\ Failed'
       /\ DOMAIN Result' = {"success", "error", "frame_number", "timestamp"}
       /\ Result'.frame_number = frame_count'
       /\ Result'.timestamp = now
       /\ seen_plates' = seen_plates
       /\ last_occupancy' = last_occupancy]_vars

\* a gate session tracking a plate whose next admitted frame fails
C19_Witness ==
  /\ kind = "gate"
  /\ Failed
  /\ count.failed = 1
  /\ processed_count = 1
  /\ seen_plates # <<>>

\* C20: processed_frame_number of a success envelope is the number of
\* envelopes, success and failure, the session has emitted since creation
\* or the last reset, that envelope included.
C20_CountsEveryEnvelope ==
  Succeeded => Result.processed_frame_number = count.sent

\* ---- the signaling relay
Sigs == 1..Len(signals)
Sender(k) == signals[k].from
\* the connections other than the sender registered when signal k arrived
Others(k) ==
  {signals[k].reg[i] : i \in 1..Len(signals[k].reg)} \ {Sender(k)}
\* the deliveries of signal k to connection d
Deliveries(d, k) == {i \in 1..Len(got[d]) : got[d][i].sig = k}
\* the handling of signal k is over: its sender is out of the broadcast loop
Done(k) == ~(pc[Sender(k)] = "relay" /\ iter[Sender(k)].sig = k)
GotOnceVerbatim(d, k) ==
  /\ Cardinality(Deliveries(d, k)) = 1
  /\ \A i \in Deliveries(d, k) : got[d][i].text = signals[k].text
\* d is registered and its client is there
Live(d) == Registered(d) /\ open[d]

\* C21: with N connections registered, a signaling message received from a
\* sender is delivered exactly once, with the text that was received, to each
\* of the N-1 other registered connections, and never to the sender.
C21_DeliveredToAllOthers ==
  \A k \in Sigs :
    /\ Deliveries(Sender(k), k) = {}
    /\ Done(k) => \A d \in Others(k) : GotOnceVerbatim(d, k)

\* C22: when the delivery to one registered connection fails during the
\* fan-out, the payload still reaches every other registered live connection,
\* and the sender's session goes on with the sender registered.
C22_DeadPeerDoesNotAbort ==
  \A k \in Sigs :
    signals[k].fault = "send" =>
      /\ pc[Sender(k)] # "ended"
      /\ Registered(Sender(k))
      /\ \A d \in Others(k) : Live(d) => GotOnceVerbatim(d, k)

\* C23: the broadcast iterates a snapshot: when a connection is registered or
\* removed by its own handler while the broadcast is suspended between two
\* deliveries, every connection registered when the broadcast began and still
\* registered receives the payload exactly once, and the fan-out is not
\* aborted.
C23_SnapshotIteration ==
  \A k \in Sigs :
    (Done(k) /\ signals[k].fault \notin {"send", "parse"}) =>
      /\ signals[k].fault = "none"
      /\ \A d \in Others(k) : Live(d) => GotOnceVerbatim(d, k)

\* C24: the relay never parses what it relays: a text that is not JSON, or
\* not a JSON object, is relayed unchanged to the other registered
\* connections and the sender's session goes on.
C24_RelaysWithoutParsing ==
  \A k \in Sigs :
    ~Parses(signals[k].text) =>
      /\ signals[k].fault = "none"
      /\ Done(k) => \A d \in Others(k) : Live(d) => GotOnceVerbatim(d, k)

\* ---- the monitor dispatch
EventIs(i, ev) == i \in 1..Len(events) /\ events[i].ev = ev
\* a message has arrived in this step, and which
Arrives == Len(events') > Len(events) /\ events'[Len(events) + 1].ev = "recv"
Arriving == events'[Len(events) + 1].what
IsControl(m) == m.form = "object" /\ m.type \in {"reset", "stats"}
ControlReply(m) ==
  IF m.type = "reset" THEN [type |-> "reset_ack"]
  ELSE [type |-> "stats", data |-> get_stats]

NoFrameText(m) ==
  \/ m.form \in {"invalid", "array"}
  \/ m.form = "object" /\ m.type = "none" /\ m.data = "none"
C26_ErrorReplyForBadText ==
  \A i \in 1..Len(events) :
    (EventIs(i, "recv") /\ NoFrameText(events[i].what)) =>
      /\ EventIs(i + 1, "reply")
      /\ events[i + 1].what = "error"
      /\ events[i + 1].n = events[i].n

\* the send of the reply started at position i has returned before position j
SentBetween(i, j) ==
  \E k \in (i + 1)..(j - 1) : EventIs(k, "sent") /\ events[k].n = events[i].n

\* C27: within one session the loop is strictly sequential: process_frame for
\* a later message never starts before the send of every earlier reply has
\* returned, replies leave in arrival order, and never more than one reply is
\* outstanding.
C27_StrictlySequential ==
  /\ \A j \in 1..Len(events) :
       EventIs(j, "process") =>
         \A i \in 1..(j - 1) : EventIs(i, "reply") => SentBetween(i, j)
  /\ \A i, j \in 1..Len(events) :
       (i < j /\ EventIs(i, "sent") /\ EventIs(j, "sent")) =>
         events[i].n < events[j].n
  /\ Cardinality({i \in 1..Len(events) : EventIs(i, "reply")})
       <= Cardinality({i \in 1..Len(events) : EventIs(i, "sent")}) + 1

\* two frames in a row were processed and answered
C27_Witness ==
  \E i, j \in 1..Len(events) :
    /\ i < j
    /\ EventIs(i, "process") /\ events[i].n = 1
    /\ EventIs(j, "process") /\ events[j].n = 2
    /\ SentBetween(i + 1, j)
    /\ EventIs(Len(events), "sent") /\ events[Len(events)].n = 2

\* the handler of d has something to do: a text of its client to relay, a
\* broadcast loop or a send to resume, a disconnect to notice
HasWork(d) ==
  \/ endpoint[d] = "signal" /\ pc[d] = "recv" /\ open[d] /\ Len(signals) < MaxSignals
  \/ pc[d] = "relay"
  \/ pc[d] = "recv" /\ ~open[d]
  \/ inflight[d] # None
HandlerStep(d) ==
  \/ SignalReceive(d, Offer)
  \/ RelayStep(d)
  \/ SignalClosed(d)
  \/ EchoClosed(d)
  \/ SendDone(d)
  \/ MonitorClosed(d)

\* C28: a detection call that does not return stalls only its own session:
\* meanwhile the handler of every other connection that has something to do
\* can take its step.
C28_HangStallsOnlyItself ==
  \A c, d \in Conns :
    (pc[c] = "detect" /\ d # c /\ HasWork(d)) => ENABLED HandlerStep(d)

\* C29: the registry holds exactly the live connections: a connection is
\* registered from connect until its handler ends, and not once its handler
\* has ended, for whatever reason and on every endpoint.
C29_RegistryHoldsLive ==
  \A c \in Conns : Registered(c) <=> pc[c] \notin {"none", "ended"}

Raised(j) == EventIs(j, "process") /\ events[j].what = "raised"

\* C30: after an unexpected fault in a monitor's dispatch loop (the detection
\* raises) the handler attempts one error send, then removes the connection
\* from the registry and ends; nothing of that connection is processed
\* afterwards, and the removal happens whatever becomes of the error send.
C30_FaultTeardown ==
  \A j \in 1..Len(events) :
    Raised(j) =>
      \/ /\ pc[Monitor] = "fault"
         /\ Len(events) = j
      \/ /\ pc[Monitor] = "ended"
         /\ ~Registered(Monitor)
         /\ Len(events) = j + 1
         /\ EventIs(j + 1, "error")

\* the detection raised, the client went away, the error send failed
C30_Witness ==
  /\ Len(events) > 1
  /\ Raised(Len(events) - 1)
  /\ EventIs(Len(events), "error") /\ events[Len(events)].what = "raise"
  /\ pc[Monitor] = "ended" /\ ~Registered(Monitor)

\* ---- the latency ring
\* the min(n, 10) most recent of the n times recorded since creation / reset
LatestTimes == Last(recorded, Min(count.admitted, RingCapacity))

\* C39: the ring never holds more than 10 samples: it is exactly the
\* min(n, 10) most recent times recorded since creation or the last reset,
\* in arrival order, and an adjustment uses the mean of exactly those.
C39_RingHoldsLatestTen ==
  /\ [](use_dynamic_skipping =>
          /\ Len(frame_skipper.processing_times) <= RingCapacity
          /\ frame_skipper.processing_times = LatestTimes)
  /\ [][(use_dynamic_skipping /\ Evaluated /\ Len(LatestTimes') >= MinSamples) =>
          LET old == frame_skipper
              n == Len(LatestTimes')
              total == Sum(LatestTimes')
          IN frame_skipper'.skip_frames =
               IF total * old.target_fps < 600 * old.skip_frames * n
               THEN Max(old.min_skip, old.skip_frames - 1)
               ELSE IF total * old.target_fps > 900 * old.skip_frames * n
               THEN Min(old.max_skip, old.skip_frames + 2)
               ELSE old.skip_frames]_vars

\* more than 10 times were recorded and the one just dropped differs from
\* the oldest one kept
C39_Witness ==
  /\ use_dynamic_skipping
  /\ count.admitted > RingCapacity
  /\ Len(recorded) = RingCapacity + 1
  /\ recorded[1] # recorded[2]
  /\ Len(frame_skipper.processing_times) = RingCapacity

\* ---- admission while the interval adapts
\* calls i < j of the run are consecutive admitted frames
ConsecutiveAdmitted(i, j) ==
  /\ i < j
  /\ admitLog[i].admit /\ admitLog[j].admit
  /\ \A k \in (i + 1)..(j - 1) : ~admitLog[k].admit

\* C33: in dynamic mode one frame is admitted per skip_interval also while
\* the interval adapts: two consecutive admitted frames are as many frames
\* apart as the skip_interval in force after the earlier one was processed.
C33_OneAdmissionPerInterval ==
  use_dynamic_skipping =>
    \A i, j \in 1..Len(admitLog) :
      ConsecutiveAdmitted(i, j) => j - i = SkipAfter(i)

\* ---- the counters
\* C34: the frame counter counts raw frames alike in both skipping modes:
\* the frame_number of an envelope is the 1-indexed position, since creation
\* or the last reset, of the frame that produced it, and total_frames of
\* get_stats() is the number of frames passed to process_frame since then.
C34_FrameCounterCountsRawFrames ==
  /\ Replied => Result.frame_number = calls
  /\ get_stats.total_frames = calls

\* C35: in both skipping modes and for every interval, processed_count <=
\* frame_count (the statistics never report more processed frames than
\* total frames), and between resets the success envelopes are numbered
\* 1, 2, 3, ... by processed_frame_number.
C35_ProcessedWithinTotal ==
  /\ get_stats.processed_frames <= get_stats.total_frames
  /\ processed_count = count.sent - count.failed
  /\ Succeeded => Result.processed_frame_number = processed_count

\* the numbering of success envelopes alone
C35_SuccessNumbering ==
  /\ processed_count = count.sent - count.failed
  /\ Succeeded => Result.processed_frame_number = processed_count

\* C36: in dynamic mode the skip ratio reported by get_stats is the
\* controller's current skip_interval: it equals the current_skip_rate of
\* the most recent success envelope.
C36_StatsReportCurrentSkip ==
  use_dynamic_skipping =>
    /\ get_stats.skip_rate = frame_skipper.skip_frames
    /\ Succeeded => Some(get_stats.skip_rate) = Result.current_skip_rate


\* C37: a gate-monitor or lot-monitor connection is only ever sent what its
\* own input caused (its greeting, acknowledgements, error replies, the
\* envelopes of its frames, all of them sent by its own handler); nothing
\* another connection sent, a relayed signaling text in particular, is ever
\* delivered to it.
C37_MonitorGetsOnlyItsOwn ==
  \A c \in Conns :
    endpoint[c] = "monitor" =>
      \A i \in 1..Len(got[c]) : got[c][i].from = c


\* C32: the detection capability is a process-wide singleton: whatever
\* sessions are created and upload requests served, at most one
\* plate-recognition pipeline and at most one parking-slot detector are ever
\* constructed, and all callers of a kind hold that one instance.
C32_OneInstancePerKind ==
  /\ \A k \in Kinds : instances[k] <= 1
  /\ \A i, j \in Callers :
       (caller[i].via # "none" /\ caller[i].kind = caller[j].kind) =>
         caller[i].ref = caller[j].ref

\* the sessions of a kind hold one instance among themselves
C32_SessionsShare ==
  \A i, j \in Callers :
    (caller[i].via = "session" /\ caller[j].via = "session"
       /\ caller[i].kind = caller[j].kind) => caller[i].ref = caller[j].ref

\* C38: detection calls never overlap: across all sessions and upload
\* requests at most one call is inside a detector at any time, so from the
\* moment a call has written the temporary frame file until it has removed
\* it, the file is the one this call wrote: no other call writes or deletes
\* it in between.
C38_DetectionNeverOverlaps ==
  /\ Cardinality({i \in Callers : InCall(i)}) <= 1
  /\ \A i \in Callers : InCall(i) => temp[caller[i].kind] = i

\* a session's call is about to remove its file after an upload request of
\* the same kind has been served, and another session of the kind waits
C38_Witness ==
  \E i, j, l \in Callers :
    /\ caller[i].via = "session" /\ caller[i].at = "predicted"
    /\ caller[j].via = "upload" /\ caller[j].at = "returned"
    /\ caller[l].via = "session" /\ l # i /\ caller[l].at = "idle"
    /\ caller[j].kind = caller[i].kind /\ caller[l].kind = caller[i].kind
    /\ temp[caller[i].kind] = i


\* the processor of session c, and of it what the session owns and what it
\* has produced: its admission decisions and its latest envelope
StateOf(c) == IF c = active THEN Snapshot ELSE parked[c][1]
Owned(c) ==
  LET p == StateOf(c)
  IN <<p.frame_count, p.processed_count, p.frame_skipper.skip_frames,
       p.frame_skipper.processing_times, p.seen_plates, p.last_occupancy,
       p.frame_skipper.frame_count, p.frame_skipper.last_adjustment_frame>>
Produced(c) == <<StateOf(c).admitLog, StateOf(c).lastResult, StateOf(c).count>>

\* C31: session state is owned by its session alone: the frames, control
\* messages, resets and disconnects of one connection never change another
\* connection's frame_count, processed_count, skip interval, latency ring,
\* dedup map or last_occupancy, so two sessions given the same inputs (the
\* same messages, detection results and timestamps) have made the same
\* admission decisions and envelopes, whatever ran in between.
C31_SessionsOwnTheirState ==
  /\ [](\A c, d \in Sessions :
          (Exists(c) /\ Exists(d) /\ inputs[c] = inputs[d]) =>
            /\ Owned(c) = Owned(d)
            /\ Produced(c) = Produced(d))
  /\ [][\A d \in Sessions :
          (Exists(d) /\ (d # active \/ active' # active)) =>
            /\ Owned(d)' = Owned(d)
            /\ Produced(d)' = Produced(d)]_vars

\* both sessions have had the same two inputs, a frame that was admitted and
\* answered among them, the twin's handler having run last
C31_Witness ==
  /\ active = Twin /\ Exists(First)
  /\ inputs[First] = inputs[Twin]
  /\ Len(inputs[Twin]) = MaxInputs
  /\ \E i \in 1..Len(inputs[Twin]) : inputs[Twin][i].op = "frame"
  /\ Succeeded
  /\ processed_count > 0

============================================================================
